---------------------------- MODULE Spec2Model ----------------------------
(***************************************************************************)
(* Repository analyzer backend (backend/server.py).                        *)
(*                                                                         *)
(* The POST /analyze handler analyze_repository is modelled as a state     *)
(* machine whose steps are the calls it makes in order (mkdtemp, clone,    *)
(* repo name, detect_framework, find_entry_points, analyze_file_structure, *)
(* get_ai_insights, RepositoryAnalysis, insert_one, finally/rmtree).  The  *)
(* passes themselves are pure functions of the cloned working tree and are *)
(* operators below.  Text is kept as TLA+ strings; Python's str methods    *)
(* are operators over them.                                                *)
(***************************************************************************)
EXTENDS Integers, Sequences, FiniteSets, TLC

(***************************************************************************)
(* Python str / pathlib primitives used by the source                      *)
(***************************************************************************)

\* s[i] as a one-character string (1-based)
CharAt(s, i) == SubSeq(s, i, i)

\* str.startswith
startswith(s, p) == Len(s) >= Len(p) /\ SubSeq(s, 1, Len(p)) = p

\* str.endswith
endswith(s, p) == Len(s) >= Len(p) /\ SubSeq(s, Len(s) - Len(p) + 1, Len(s)) = p

\* t occurs in s at position i
OccursAt(s, t, i) == i >= 1 /\ i + Len(t) - 1 <= Len(s) /\ SubSeq(s, i, i + Len(t) - 1) = t

\* Python's  t in s  for strings
contains(s, t) == \E i \in 1..(Len(s) + 1) : OccursAt(s, t, i)

\* number of non-overlapping occurrences of t in s, left to right (str.count)
RECURSIVE count(_, _)
count(s, t) ==
    IF Len(s) < Len(t) \/ t = "" THEN 0
    ELSE IF OccursAt(s, t, 1) THEN 1 + count(SubSeq(s, Len(t) + 1, Len(s)), t)
    ELSE count(SubSeq(s, 2, Len(s)), t)

\* str.rstrip(c) for a single character c
RECURSIVE rstrip(_, _)
rstrip(s, c) ==
    IF s # "" /\ CharAt(s, Len(s)) = c THEN rstrip(SubSeq(s, 1, Len(s) - 1), c) ELSE s

\* s.split(c)[-1]: what follows the last c, the whole of s when there is none
RECURSIVE split_last(_, _)
split_last(s, c) ==
    IF s = "" THEN ""
    ELSE IF CharAt(s, Len(s)) = c THEN ""
    ELSE split_last(SubSeq(s, 1, Len(s) - 1), c) \o CharAt(s, Len(s))

\* str.replace(old, new): every non-overlapping occurrence, left to right
RECURSIVE replace(_, _, _)
replace(s, old, new) ==
    IF Len(s) < Len(old) THEN s
    ELSE IF OccursAt(s, old, 1) THEN new \o replace(SubSeq(s, Len(old) + 1, Len(s)), old, new)
    ELSE CharAt(s, 1) \o replace(SubSeq(s, 2, Len(s)), old, new)

\* sep.join(parts)
RECURSIVE join(_, _)
join(sep, parts) ==
    IF parts = <<>> THEN ""
    ELSE IF Len(parts) = 1 THEN parts[1]
    ELSE parts[1] \o sep \o join(sep, Tail(parts))

\* str.lower on one character (ASCII letters)
lower_char(c) ==
    CASE c = "A" -> "a" [] c = "B" -> "b" [] c = "C" -> "c" [] c = "D" -> "d"
      [] c = "E" -> "e" [] c = "F" -> "f" [] c = "G" -> "g" [] c = "H" -> "h"
      [] c = "I" -> "i" [] c = "J" -> "j" [] c = "K" -> "k" [] c = "L" -> "l"
      [] c = "M" -> "m" [] c = "N" -> "n" [] c = "O" -> "o" [] c = "P" -> "p"
      [] c = "Q" -> "q" [] c = "R" -> "r" [] c = "S" -> "s" [] c = "T" -> "t"
      [] c = "U" -> "u" [] c = "V" -> "v" [] c = "W" -> "w" [] c = "X" -> "x"
      [] c = "Y" -> "y" [] c = "Z" -> "z" [] OTHER -> c

\* str.lower
RECURSIVE lower(_)
lower(s) == IF s = "" THEN "" ELSE lower_char(CharAt(s, 1)) \o lower(SubSeq(s, 2, Len(s)))

\* str.rfind(c): position of the last c in s, 0 when there is none
RECURSIVE rfind(_, _)
rfind(s, c) ==
    IF s = "" THEN 0
    ELSE IF CharAt(s, Len(s)) = c THEN Len(s)
    ELSE rfind(SubSeq(s, 1, Len(s) - 1), c)

\* PurePath.suffix of a file name: from the last dot on, unless the dot leads or ends the name
suffix(name) ==
    LET i == rfind(name, ".")
    IN  IF 1 < i /\ i < Len(name) THEN SubSeq(name, i, Len(name)) ELSE ""

\* membership in a Python list
InSeq(x, seq) == \E i \in 1..Len(seq) : seq[i] = x

\* Python's None
None == "None"


(***************************************************************************)
(* The cloned working tree                                                 *)
(*                                                                         *)
(* A working tree is the sequence of its regular files in directory-scan   *)
(* order (the order rglob yields them).  A file is a record:               *)
(*   path      the path relative to the clone directory, as its segments   *)
(*   text      the raw content                                             *)
(*   readable  open(..., 'r', encoding='utf-8') and read succeed           *)
(*   stat_ok   Path.stat succeeds                                          *)
(*   json      what json.load makes of the content                         *)
(*   ast       what ast.parse/ast.walk make of the content                 *)
(*   es6, require   what re.findall returns for the two patterns           *)
(* Directories exist exactly as prefixes of file paths (git keeps no empty *)
(* directory).                                                             *)
(***************************************************************************)

\* a JSON member: absent from the object, a mapping, or any other JSON value
Absent == [kind |-> "absent", map |-> <<>>]
Other == [kind |-> "other", map |-> <<>>]
Mapping(m) == [kind |-> "dict", map |-> m]

\* json.load raised (or was never tried)
NoJson == [loads |-> FALSE, isdict |-> FALSE,
           dependencies |-> Absent, devDependencies |-> Absent, scripts |-> Absent]

\* json.load returned an object with these three members
JsonObject(deps, dev, scripts) ==
    [loads |-> TRUE, isdict |-> TRUE,
     dependencies |-> deps, devDependencies |-> dev, scripts |-> scripts]

\* json.load returned a value that is no object (a list, a number, ...)
JsonScalar == [NoJson EXCEPT !.loads = TRUE]

\* ast.parse raised SyntaxError (or was never tried)
NoAst == [valid |-> FALSE, nodes |-> <<>>]

\* AST nodes in ast.walk order
ImportNode(names) == [type |-> "Import", names |-> names, module |-> None]
ImportFromNode(module) == [type |-> "ImportFrom", names |-> <<>>, module |-> module]
OtherNode == [type |-> "Other", names |-> <<>>, module |-> None]

File(path, text) ==
    [path |-> path, text |-> text, readable |-> TRUE, stat_ok |-> TRUE,
     json |-> NoJson, ast |-> NoAst, es6 |-> <<>>, require |-> <<>>]

\* Path.name
name(path) == path[Len(path)]

\* Path.is_file for  repo_path / path
is_file(ws, path) == \E i \in 1..Len(ws) : ws[i].path = path

\* Path.is_dir for  repo_path / path
is_dir(ws, path) ==
    \/ path = <<>>
    \/ \E i \in 1..Len(ws) :
          Len(ws[i].path) > Len(path) /\ SubSeq(ws[i].path, 1, Len(path)) = path

\* Path.exists for  repo_path / path
exists(ws, path) == is_file(ws, path) \/ is_dir(ws, path)

\* the file stored at path
file_at(ws, path) == ws[CHOOSE i \in 1..Len(ws) : ws[i].path = path]

\* open(repo_path / path) followed by read succeeds
can_read(ws, path) == is_file(ws, path) /\ file_at(ws, path).readable

\* dict.get(key, {}) on a loaded JSON object
get_or_empty(member) == IF member.kind = "absent" THEN Mapping(<<>>) ELSE member

\* {**a, **b}
merge(a, b) == [k \in (DOMAIN a) \cup (DOMAIN b) |-> IF k \in DOMAIN b THEN b[k] ELSE a[k]]

(***************************************************************************)
(* detect_framework                                                        *)
(***************************************************************************)

package_json == <<"package.json">>
src_dir == <<"src">>

\* the try block of lines 66-90 raises before any append
package_json_raises(ws) ==
    \/ ~can_read(ws, package_json)
    \/ LET data == file_at(ws, package_json).json
       IN  \/ ~data.loads
           \/ ~data.isdict
           \/ get_or_empty(data.dependencies).kind # "dict"
           \/ get_or_empty(data.devDependencies).kind # "dict"

\* deps of line 69
merged_deps(ws) ==
    LET data == file_at(ws, package_json).json
    IN  merge(get_or_empty(data.dependencies).map, get_or_empty(data.devDependencies).map)

\* lines 72-76 with  if  in place of  elif
react_or_next_mutant(deps) ==
    (IF "next" \in DOMAIN deps THEN <<"Next.js">> ELSE <<>>)
    \o (IF "react" \in DOMAIN deps \/ "react-dom" \in DOMAIN deps THEN <<"React">> ELSE <<>>)

\* lines 72-76: Next.js first, React only otherwise
react_or_next(deps) ==
    IF "next" \in DOMAIN deps THEN <<"Next.js">>
    ELSE IF "react" \in DOMAIN deps \/ "react-dom" \in DOMAIN deps THEN <<"React">>
    ELSE <<>>

\* lines 63-90: the frameworks list after the package.json block
package_json_frameworks(ws) ==
    IF ~exists(ws, package_json) \/ package_json_raises(ws) THEN <<>>
    ELSE LET deps == merged_deps(ws)
         IN  react_or_next(deps)
             \o (IF "vue" \in DOMAIN deps THEN <<"Vue">> ELSE <<>>)
             \o (IF "angular" \in DOMAIN deps \/ "@angular/core" \in DOMAIN deps
                 THEN <<"Angular">> ELSE <<>>)
             \o (IF "svelte" \in DOMAIN deps THEN <<"Svelte">> ELSE <<>>)

\* f.read(100)
SampleLen == 100

\* src_dir.rglob('*.js*'): the files below src/ whose name contains ".js", in scan order
RECURSIVE rglob_js(_)
rglob_js(ws) ==
    IF ws = <<>> THEN <<>>
    ELSE LET f == Head(ws)
         IN  (IF Len(f.path) >= 2 /\ f.path[1] = "src" /\ contains(name(f.path), ".js")
              THEN <<f>> ELSE <<>>) \o rglob_js(Tail(ws))

\* line 100 on one candidate; an unreadable candidate is skipped (lines 103-104)
has_fingerprint(f) ==
    /\ f.readable
    /\ LET content == SubSeq(f.text, 1, IF Len(f.text) < SampleLen THEN Len(f.text) ELSE SampleLen)
       IN  contains(lower(content), "react") \/ contains(content, "import React")

\* the loop of lines 96-104: append once and break at the first match
RECURSIVE sample_loop(_)
sample_loop(candidates) ==
    IF candidates = <<>> THEN <<>>
    ELSE IF has_fingerprint(Head(candidates)) THEN <<"React">>
    ELSE sample_loop(Tail(candidates))

\* line 93 without the test: the sampler block is always entered
sampler_invoked_mutant(before) == TRUE

\* line 93: the sampler block is entered iff the list is still empty
sampler_invoked(before) == before = <<>>

\* lines 94-104
sampler_frameworks(ws) ==
    IF exists(ws, src_dir) THEN sample_loop(rglob_js(ws)) ELSE <<>>

requirements_txt == <<"requirements.txt">>

\* lines 107-119
requirements_frameworks(ws) ==
    IF ~exists(ws, requirements_txt) \/ ~can_read(ws, requirements_txt) THEN <<>>
    ELSE LET content == lower(file_at(ws, requirements_txt).text)
         IN  (IF contains(content, "django") THEN <<"Django">> ELSE <<>>)
             \o (IF contains(content, "flask") THEN <<"Flask">> ELSE <<>>)
             \o (IF contains(content, "fastapi") THEN <<"FastAPI">> ELSE <<>>)

\* lines 121-129
build_file_frameworks(ws) ==
    (IF exists(ws, <<"go.mod">>) THEN <<"Go">> ELSE <<>>)
    \o (IF exists(ws, <<"pom.xml">>) THEN <<"Java/Maven">> ELSE <<>>)
    \o (IF exists(ws, <<"build.gradle">>) THEN <<"Java/Gradle">> ELSE <<>>)

\* the frameworks list of detect_framework, split by the block that appended:
\* package.json, the sampler, the manifests read after the sampler
detect_blocks(ws) ==
    LET pkg == package_json_frameworks(ws)
        invoked == sampler_invoked(pkg)
    IN  [package |-> pkg,
         invoked |-> invoked,
         sampled |-> IF invoked THEN sampler_frameworks(ws) ELSE <<>>,
         later |-> requirements_frameworks(ws) \o build_file_frameworks(ws)]

\* lines 59-131
detect_framework(ws) ==
    LET b == detect_blocks(ws)
        frameworks == b.package \o b.sampled \o b.later
    IN  IF frameworks # <<>> THEN join(", ", frameworks) ELSE "Unknown"

(***************************************************************************)
(* find_entry_points                                                       *)
(***************************************************************************)

\* lines 138-143
common_entries ==
    << "index.js", "index.ts", "index.jsx", "index.tsx",
       "main.py", "app.py", "server.py", "manage.py",
       "main.go", "main.java", "Main.java",
       "index.html", "App.js", "App.tsx" >>

\* lines 145-147: the catalog names that exist at the root, in catalog order
RECURSIVE root_entries(_, _)
root_entries(ws, catalog) ==
    IF catalog = <<>> THEN <<>>
    ELSE (IF exists(ws, <<Head(catalog)>>) THEN <<Head(catalog)>> ELSE <<>>)
         \o root_entries(ws, Tail(catalog))

\* the try block of lines 152-159 raises before any append
scripts_raise(ws) ==
    \/ ~can_read(ws, package_json)
    \/ LET data == file_at(ws, package_json).json
       IN  \/ ~data.loads
           \/ ~data.isdict
           \/ get_or_empty(data.scripts).kind # "dict"

\* lines 156-159
script_lines(scripts) ==
    (IF "start" \in DOMAIN scripts THEN <<"npm start: " \o scripts["start"]>> ELSE <<>>)
    \o (IF "dev" \in DOMAIN scripts THEN <<"npm run dev: " \o scripts["dev"]>> ELSE <<>>)

\* lines 149-161
script_entries(ws) ==
    IF ~exists(ws, package_json) \/ scripts_raise(ws) THEN <<>>
    ELSE script_lines(get_or_empty(file_at(ws, package_json).json.scripts).map)

\* line 168 without the duplicate test
src_entry_wanted_mutant(ws, entry, entry_points) == exists(ws, <<"src", entry>>)

\* line 168
src_entry_wanted(ws, entry, entry_points) ==
    exists(ws, <<"src", entry>>) /\ ~InSeq(entry, entry_points)

\* lines 166-169: the loop over the catalog, entry_points being the list so far
RECURSIVE src_entries(_, _, _)
src_entries(ws, catalog, entry_points) ==
    IF catalog = <<>> THEN entry_points
    ELSE src_entries(ws, Tail(catalog),
                     IF src_entry_wanted(ws, Head(catalog), entry_points)
                     THEN Append(entry_points, "src/" \o Head(catalog))
                     ELSE entry_points)

\* lines 133-171
find_entry_points(ws) ==
    LET entry_points == root_entries(ws, common_entries) \o script_entries(ws)
    IN  IF exists(ws, src_dir) THEN src_entries(ws, common_entries, entry_points)
        ELSE entry_points

(***************************************************************************)
(* parse_imports_python, parse_imports_js                                  *)
(***************************************************************************)

\* lines 179-185: the walk over the AST nodes
RECURSIVE walk_imports(_)
walk_imports(nodes) ==
    IF nodes = <<>> THEN <<>>
    ELSE LET node == Head(nodes)
         IN  (IF node.type = "Import" THEN node.names
              ELSE IF node.type = "ImportFrom" /\ node.module # None /\ node.module # ""
                   THEN <<node.module>>
              ELSE <<>>) \o walk_imports(Tail(nodes))

\* lines 173-188: open, read or ast.parse failing leaves the list empty
parse_imports_python(f) ==
    IF f.readable /\ f.ast.valid THEN walk_imports(f.ast.nodes) ELSE <<>>

\* lines 190-206: ES6 matches first, then require matches
parse_imports_js(f) ==
    IF f.readable THEN f.es6 \o f.require ELSE <<>>

(***************************************************************************)
(* analyze_file_structure                                                  *)
(***************************************************************************)

\* line 214
code_extensions == {".py", ".js", ".jsx", ".ts", ".tsx", ".go", ".java"}

\* line 222
skip_dirs == <<"node_modules", "venv", "__pycache__", "dist", "build">>

\* a Python dict, as its items in insertion order
dict_keys(d) == [i \in 1..Len(d) |-> d[i].key]
dict_has(d, k) == \E i \in 1..Len(d) : d[i].key = k

\* d[k] = v
dict_set(d, k, v) ==
    IF dict_has(d, k)
    THEN [i \in 1..Len(d) |-> IF d[i].key = k THEN [key |-> k, value |-> v] ELSE d[i]]
    ELSE Append(d, [key |-> k, value |-> v])

\* line 219
is_hidden(parts) == \E i \in 1..Len(parts) : startswith(parts[i], ".")

\* line 222 with only the first two names of the list
is_skipped_mutant(parts) ==
    \E k \in 1..2 : \E i \in 1..Len(parts) : parts[i] = skip_dirs[k]

\* line 222
is_skipped(parts) ==
    \E k \in 1..Len(skip_dirs) : \E i \in 1..Len(parts) : parts[i] = skip_dirs[k]

\* lines 228-233
imports_of(f) ==
    LET file_ext == suffix(name(f.path))
    IN  IF file_ext \in code_extensions
        THEN IF file_ext = ".py" THEN parse_imports_python(f)
             ELSE IF file_ext \in {".js", ".jsx", ".ts", ".tsx"} THEN parse_imports_js(f)
             ELSE <<>>
        ELSE <<>>

\* lines 240-247; the uuid4 identifier is the position in the list
FileNode(f, n) ==
    LET file_ext == suffix(name(f.path))
    IN  [id |-> n,
         name |-> name(f.path),
         path |-> join("/", f.path),
         type |-> IF file_ext # "" THEN file_ext ELSE "file",
         imports |-> imports_of(f),
         size |-> IF f.stat_ok THEN Len(f.text) ELSE 0]

\* lines 250-251 without the emptiness test
record_dependency_mutant(dependencies, rel_path, imports) ==
    dict_set(dependencies, rel_path, imports)

\* lines 250-251
record_dependency(dependencies, rel_path, imports) ==
    IF imports # <<>> THEN dict_set(dependencies, rel_path, imports) ELSE dependencies

\* lines 216-251: the loop over rglob('*'), acc being (files, dependencies) so far
RECURSIVE walk_tree(_, _, _)
walk_tree(repo_path, ws, acc) ==
    IF ws = <<>> THEN acc
    ELSE LET f == Head(ws)
             parts == repo_path \o f.path
         IN  IF is_hidden(parts) \/ is_skipped(parts)
             THEN walk_tree(repo_path, Tail(ws), acc)
             ELSE LET node == FileNode(f, Len(acc.files) + 1)
                  IN  walk_tree(repo_path, Tail(ws),
                                [files |-> Append(acc.files, node),
                                 dependencies |->
                                     record_dependency(acc.dependencies, node.path, node.imports)])

\* lines 208-253
analyze_file_structure(repo_path, ws) ==
    walk_tree(repo_path, ws, [files |-> <<>>, dependencies |-> <<>>])

(***************************************************************************)
(* get_ai_insights                                                         *)
(***************************************************************************)

\* line 274: at most this many dependency keys go into the prompt
MaxPromptKeys == 10

\* lines 268-282: the variable parts of the prompt
prompt_of(repo_info) ==
    [repo_name |-> repo_info.repo_name,
     framework |-> repo_info.framework,
     entry_points |-> join(", ", repo_info.entry_points),
     file_count |-> repo_info.file_count,
     keys |-> join(", ", SubSeq(dict_keys(repo_info.dependencies), 1,
                                IF Len(repo_info.dependencies) < MaxPromptKeys
                                THEN Len(repo_info.dependencies) ELSE MaxPromptKeys))]

\* line 259 without the early return
key_missing_mutant(api_key) == FALSE

\* line 259:  not api_key
key_missing(api_key) == api_key = None \/ api_key = ""

\* lines 255-288.  llm is what the collaborator does when asked:
\*   [at |-> "init"]                  LlmChat(...) raises, text is str(e)
\*   [at |-> "send", raised |-> TRUE] send_message raises, text is str(e)
\*   [at |-> "send", raised |-> FALSE] send_message returns text
\* The result carries the returned string and the send_message calls made.
get_ai_insights(repo_info, api_key, llm) ==
    IF key_missing(api_key)
    THEN [value |-> "AI insights unavailable: API key not configured", sent |-> <<>>]
    ELSE IF llm.at = "init"
    THEN [value |-> "AI insights unavailable: " \o llm.text, sent |-> <<>>]
    ELSE IF llm.raised
    THEN [value |-> "AI insights unavailable: " \o llm.text,
          sent |-> <<[prompt |-> prompt_of(repo_info), raised |-> TRUE]>>]
    ELSE [value |-> llm.text,
          sent |-> <<[prompt |-> prompt_of(repo_info), raised |-> FALSE]>>]

(***************************************************************************)
(* analyze_repository: state                                               *)
(***************************************************************************)

VARIABLES
    pc,             \* where the handler stands
    api_key,        \* os.environ.get('EMERGENT_LLM_KEY'): None, "" or a key
    request,        \* request.github_url, None before the request arrives
    temp_dir,       \* the parts of the mkdtemp path, <<>> while temp_dir is None
    disk,           \* the temporary directories that exist on disk
    repo,           \* the working tree the clone wrote below temp_dir
    exc,            \* the exception in flight: "none", "HTTPException" or "Exception"
    repo_name,      \* line 311
    framework,      \* line 314
    blocks,         \* which block of detect_framework appended what
    entry_points,   \* line 317
    file_structure, \* line 320
    dependencies,   \* line 320
    ai_insights,    \* line 323
    analysis,       \* <<the RepositoryAnalysis>> once built, else <<>>
    db,             \* the documents inserted into db.repository_analyses
    response,       \* what the caller receives: status code and body
    clone_calls,    \* the number of Repo.clone_from calls
    llm_sent,       \* the send_message calls made: the prompt, and whether the call raised
    passes          \* the passes that have started, in order

vars == << pc, api_key, request, temp_dir, disk, repo, exc, repo_name, framework, blocks,
           entry_points, file_structure, dependencies, ai_insights, analysis, db,
           response, clone_calls, llm_sent, passes >>

NoBlocks == [package |-> <<>>, invoked |-> FALSE, sampled |-> <<>>, later |-> <<>>]
NoResponse == [status |-> 0, body |-> <<>>]

\* line 311
extract_repo_name(github_url) ==
    replace(split_last(rstrip(github_url, "/"), "/"), ".git", "")

(***************************************************************************)
(* Inputs: requests, environments and remote repositories                  *)
(***************************************************************************)

PyFile(path, text, nodes) == [File(path, text) EXCEPT !.ast = [valid |-> TRUE, nodes |-> nodes]]
JsFile(path, text, es6, require) == [File(path, text) EXCEPT !.es6 = es6, !.require = require]
JsonFile(path, json) == [File(path, "{}") EXCEPT !.json = json]
Unreadable(f) == [f EXCEPT !.readable = FALSE, !.stat_ok = FALSE]

\* a dict with these keys
Dict(keys) == [k \in keys |-> "1.0"]

\* the subsets of S with at most n elements
RECURSIVE UpTo(_, _)
UpTo(S, n) ==
    IF n = 0 THEN {{}}
    ELSE LET smaller == UpTo(S, n - 1)
         IN  smaller \cup {T \cup {x} : T \in smaller, x \in S}

\* the elements of seq that are in S, in the order of seq
RECURSIVE Restrict(_, _)
Restrict(seq, S) ==
    IF seq = <<>> THEN <<>>
    ELSE (IF Head(seq) \in S THEN <<Head(seq)>> ELSE <<>>) \o Restrict(Tail(seq), S)

\* tempfile.mkdtemp(): a fresh directory below the platform's temporary directory
TempDirs ==
    { <<"/", "tmp", "tmpk3v9x_2a">>,
      <<"/", "var", "build", "tmpk3v9x_2a">>,
      <<"/", "home", "app", ".cache", "tmpk3v9x_2a">> }

ApiKeys == {None, "", "sk-emergent-1"}

LlmOutcomes ==
    { [at |-> "init", raised |-> TRUE, text |-> "unsupported provider"],
      [at |-> "send", raised |-> TRUE, text |-> "401 Unauthorized"],
      [at |-> "send", raised |-> FALSE, text |-> "1. Overview: a small service."] }

UrlPrefixes == {"https://github.com/octocat/", "git@github.com:octocat/"}
UrlNames == {"Hello-World", "octocat.github.io", "linguist", "my.gitignore"}
UrlEndings == {"", ".git", "/", ".git//"}

Urls == {p \o n \o e : p \in UrlPrefixes, n \in UrlNames, e \in UrlEndings} \cup {"invalid-url"}

GitHead == File(<<".git", "HEAD">>, "ref: refs/heads/main")

MainPy ==
    PyFile(<<"main.py">>, "import os\nfrom foo import bar\n",
           <<OtherNode, ImportNode(<<"os">>), ImportFromNode("foo")>>)

AppJs ==
    JsFile(<<"src", "App.js">>, "import React from 'react';\nconst x = require('./x');\n",
           <<"react">>, <<"./x">>)

NextPackage ==
    JsonFile(package_json,
             JsonObject(Mapping(Dict({"next", "react", "react-dom"})),
                        Mapping(Dict({"eslint"})),
                        Mapping("start" :> "next start" @@ "dev" :> "next dev")))

\* the repositories a clone may bring in
Remotes ==
    { <<GitHead>>,
      <<GitHead, File(requirements_txt, "fastapi==0.95.0\n"), MainPy>>,
      <<GitHead, NextPackage, File(<<"index.js">>, ""),
        JsFile(<<"node_modules", "react", "index.js">>, "module.exports = require('./cjs');",
               <<>>, <<"./cjs">>),
        JsFile(<<"src", "index.js">>, "import App from './App';", <<"./App">>, <<>>), AppJs>>,
      <<GitHead, File(requirements_txt, "Flask==2.0\n"), File(<<"app.py">>, ""), AppJs>> }

(***************************************************************************)
(* analyze_repository: steps                                               *)
(***************************************************************************)

Init ==
    /\ pc = "idle"
    /\ api_key \in ApiKeys
    /\ request = None
    /\ temp_dir = <<>>
    /\ disk = {}
    /\ repo = <<>>
    /\ exc = "none"
    /\ repo_name = None
    /\ framework = None
    /\ blocks = NoBlocks
    /\ entry_points = <<>>
    /\ file_structure = <<>>
    /\ dependencies = <<>>
    /\ ai_insights = None
    /\ analysis = <<>>
    /\ db = <<>>
    /\ response = NoResponse
    /\ clone_calls = 0
    /\ llm_sent = <<>>
    /\ passes = <<>>

\* line 296: a request arrives
Request ==
    /\ pc = "idle"
    /\ \E url \in Urls : request' = url
    /\ pc' = "mkdtemp"
    /\ UNCHANGED << api_key, temp_dir, disk, repo, exc, repo_name, framework, blocks,
                    entry_points, file_structure, dependencies, ai_insights, analysis, db,
                    response, clone_calls, llm_sent, passes >>

\* lines 301-302
Mkdtemp ==
    /\ pc = "mkdtemp"
    /\ \E dir \in TempDirs : temp_dir' = dir /\ disk' = disk \cup {dir}
    /\ pc' = "clone"
    /\ UNCHANGED << api_key, request, repo, exc, repo_name, framework, blocks,
                    entry_points, file_structure, dependencies, ai_insights, analysis, db,
                    response, clone_calls, llm_sent, passes >>

\* line 301: mkdtemp raises OSError, temp_dir stays None
MkdtempRaises ==
    /\ pc = "mkdtemp"
    /\ exc' = "Exception"
    /\ pc' = "finally"
    /\ UNCHANGED << api_key, request, temp_dir, disk, repo, repo_name, framework, blocks,
                    entry_points, file_structure, dependencies, ai_insights, analysis, db,
                    response, clone_calls, llm_sent, passes >>

\* lines 305-311: the clone succeeds, then the repository name is extracted
CloneOk ==
    /\ pc = "clone"
    /\ \E ws \in Remotes : repo' = ws
    /\ clone_calls' = clone_calls + 1
    /\ repo_name' = extract_repo_name(request)
    /\ pc' = "detect"
    /\ UNCHANGED << api_key, request, temp_dir, disk, exc, framework, blocks,
                    entry_points, file_structure, dependencies, ai_insights, analysis, db,
                    response, llm_sent, passes >>

\* lines 305-308: clone_from raises, the handler raises HTTPException(400)
CloneFails ==
    /\ pc = "clone"
    /\ clone_calls' = clone_calls + 1
    /\ exc' = "HTTPException"
    /\ pc' = "finally"
    /\ UNCHANGED << api_key, request, temp_dir, disk, repo, repo_name, framework, blocks,
                    entry_points, file_structure, dependencies, ai_insights, analysis, db,
                    response, llm_sent, passes >>

\* line 314
DetectFramework ==
    /\ pc = "detect"
    /\ framework' = detect_framework(repo)
    /\ blocks' = detect_blocks(repo)
    /\ passes' = Append(passes, "detect_framework")
    /\ pc' = "entry"
    /\ UNCHANGED << api_key, request, temp_dir, disk, repo, exc, repo_name,
                    entry_points, file_structure, dependencies, ai_insights, analysis, db,
                    response, clone_calls, llm_sent >>

\* line 317
FindEntryPoints ==
    /\ pc = "entry"
    /\ entry_points' = find_entry_points(repo)
    /\ passes' = Append(passes, "find_entry_points")
    /\ pc' = "walk"
    /\ UNCHANGED << api_key, request, temp_dir, disk, repo, exc, repo_name, framework, blocks,
                    file_structure, dependencies, ai_insights, analysis, db,
                    response, clone_calls, llm_sent >>

\* line 320
AnalyzeFileStructure ==
    /\ pc = "walk"
    /\ LET r == analyze_file_structure(temp_dir, repo)
       IN  file_structure' = r.files /\ dependencies' = r.dependencies
    /\ passes' = Append(passes, "analyze_file_structure")
    /\ pc' = "insights"
    /\ UNCHANGED << api_key, request, temp_dir, disk, repo, exc, repo_name, framework, blocks,
                    entry_points, ai_insights, analysis, db,
                    response, clone_calls, llm_sent >>

\* the pass a position of the handler calls
pass_at(p) ==
    CASE p = "detect" -> "detect_framework"
      [] p = "entry" -> "find_entry_points"
      [] p = "walk" -> "analyze_file_structure"

\* lines 314-320: a file-system call made outside any try block (Path.exists at lines
\* 65, 95, 108, 122-128, 146, 151, 165-168; rglob and is_file at lines 96, 216-217)
\* raises OSError, which leaves the pass and the handler
PassRaises ==
    /\ pc \in {"detect", "entry", "walk"}
    /\ passes' = Append(passes, pass_at(pc))
    /\ exc' = "Exception"
    /\ pc' = "finally"
    /\ UNCHANGED << api_key, request, temp_dir, disk, repo, repo_name, framework, blocks,
                    entry_points, file_structure, dependencies, ai_insights, analysis, db,
                    response, clone_calls, llm_sent >>

\* lines 323-329
GetAiInsights ==
    /\ pc = "insights"
    /\ \E llm \in LlmOutcomes :
          LET r == get_ai_insights([repo_name |-> repo_name, framework |-> framework,
                                    entry_points |-> entry_points,
                                    file_count |-> Len(file_structure),
                                    dependencies |-> dependencies], api_key, llm)
          IN  ai_insights' = r.value /\ llm_sent' = llm_sent \o r.sent
    /\ passes' = Append(passes, "get_ai_insights")
    /\ pc' = "insert"
    /\ UNCHANGED << api_key, request, temp_dir, disk, repo, exc, repo_name, framework, blocks,
                    entry_points, file_structure, dependencies, analysis, db,
                    response, clone_calls >>

\* lines 332-340
RepositoryAnalysis ==
    [github_url |-> request,
     repo_name |-> repo_name,
     framework |-> framework,
     entry_points |-> entry_points,
     file_structure |-> file_structure,
     dependencies |-> dependencies,
     ai_insights |-> ai_insights]

\* lines 332-349: the profile is built and stored, the handler returns it
InsertOk ==
    /\ pc = "insert"
    /\ analysis' = <<RepositoryAnalysis>>
    /\ db' = Append(db, RepositoryAnalysis)
    /\ pc' = "finally"
    /\ UNCHANGED << api_key, request, temp_dir, disk, repo, exc, repo_name, framework, blocks,
                    entry_points, file_structure, dependencies, ai_insights,
                    response, clone_calls, llm_sent, passes >>

\* lines 332-347: insert_one raises (the database is unreachable) and nothing catches it
InsertRaises ==
    /\ pc = "insert"
    /\ analysis' = <<RepositoryAnalysis>>
    /\ exc' = "Exception"
    /\ pc' = "finally"
    /\ UNCHANGED << api_key, request, temp_dir, disk, repo, repo_name, framework, blocks,
                    entry_points, file_structure, dependencies, ai_insights, db,
                    response, clone_calls, llm_sent, passes >>

\* the response with every exception reported as a server error
outcome_mutant ==
    CASE exc = "none" -> [status |-> 200, body |-> analysis]
      [] OTHER -> [status |-> 500, body |-> <<>>]

\* what leaves the handler after the finally block: the returned profile, the
\* HTTPException's status, or 500 for any other exception
outcome ==
    CASE exc = "none" -> [status |-> 200, body |-> analysis]
      [] exc = "HTTPException" -> [status |-> 400, body |-> <<>>]
      [] OTHER -> [status |-> 500, body |-> <<>>]

\* lines 351-355: rmtree removes the directory
CleanupOk ==
    /\ pc = "finally"
    /\ temp_dir # <<>> /\ temp_dir \in disk
    /\ disk' = disk \ {temp_dir}
    /\ response' = outcome
    /\ pc' = "done"
    /\ UNCHANGED << api_key, request, temp_dir, repo, exc, repo_name, framework, blocks,
                    entry_points, file_structure, dependencies, ai_insights, analysis, db,
                    clone_calls, llm_sent, passes >>

\* lines 351-357: rmtree raises and the except clause passes; the directory stays
CleanupFails ==
    /\ pc = "finally"
    /\ temp_dir # <<>> /\ temp_dir \in disk
    /\ response' = outcome
    /\ pc' = "done"
    /\ UNCHANGED << api_key, request, temp_dir, disk, repo, exc, repo_name, framework, blocks,
                    entry_points, file_structure, dependencies, ai_insights, analysis, db,
                    clone_calls, llm_sent, passes >>

\* lines 351-353: there is no directory to remove
CleanupSkipped ==
    /\ pc = "finally"
    /\ ~(temp_dir # <<>> /\ temp_dir \in disk)
    /\ response' = outcome
    /\ pc' = "done"
    /\ UNCHANGED << api_key, request, temp_dir, disk, repo, exc, repo_name, framework, blocks,
                    entry_points, file_structure, dependencies, ai_insights, analysis, db,
                    clone_calls, llm_sent, passes >>

Next ==
    \/ Request
    \/ Mkdtemp
    \/ MkdtempRaises
    \/ CloneOk
    \/ CloneFails
    \/ DetectFramework
    \/ FindEntryPoints
    \/ AnalyzeFileStructure
    \/ PassRaises
    \/ GetAiInsights
    \/ InsertOk
    \/ InsertRaises
    \/ CleanupOk
    \/ CleanupFails
    \/ CleanupSkipped

Spec == Init /\ [][Next]_vars

\* the handler on a sound file system: mkdtemp, the passes' file-system calls and
\* rmtree succeed, and only the collaborators (remote, text generation, database) fail
NextCollaborators ==
    \/ Request
    \/ Mkdtemp
    \/ CloneOk
    \/ CloneFails
    \/ DetectFramework
    \/ FindEntryPoints
    \/ AnalyzeFileStructure
    \/ GetAiInsights
    \/ InsertOk
    \/ InsertRaises
    \/ CleanupOk

SpecCollaborators == Init /\ [][NextCollaborators]_vars

(***************************************************************************)
(* The passes on their own: each specification below starts in the state   *)
(* the handler is in right after a successful clone (or right before the   *)
(* pass), with the working tree drawn from a bounded family, and runs the  *)
(* one pass.                                                               *)
(***************************************************************************)

\* the handler's state after lines 301-311, standing at position p
Cloned(p, dir, ws) ==
    /\ pc = p
    /\ api_key = None
    /\ request = "https://github.com/octocat/Hello-World"
    /\ temp_dir = dir
    /\ disk = {dir}
    /\ repo = ws
    /\ exc = "none"
    /\ repo_name = "Hello-World"
    /\ framework = None
    /\ blocks = NoBlocks
    /\ entry_points = <<>>
    /\ file_structure = <<>>
    /\ dependencies = <<>>
    /\ ai_insights = None
    /\ analysis = <<>>
    /\ db = <<>>
    /\ response = NoResponse
    /\ clone_calls = 1
    /\ llm_sent = <<>>
    /\ passes = <<>>

DefaultTemp == <<"/", "tmp", "tmpk3v9x_2a">>

\* ---- detect_framework ----

\* at most this many keys in a package.json's dependency tables
MaxDeps == 2

DepKeys == {"next", "react", "react-dom", "vue", "angular", "@angular/core", "svelte", "express"}

\* a dependency table: absent when it has no key
Table(keys) == IF keys = {} THEN Absent ELSE Mapping(Dict(keys))

\* package.json: none, unparsable, not an object, a table that is no mapping, or up to
\* MaxDeps keys split over (or repeated in) dependencies and devDependencies
PackageChoices ==
    { <<>>,
      <<JsonFile(package_json, NoJson)>>,
      <<JsonFile(package_json, JsonScalar)>>,
      <<Unreadable(JsonFile(package_json, JsonObject(Table({"next"}), Absent, Absent)))>>,
      <<JsonFile(package_json, JsonObject(Table({"next"}), Other, Absent))>>,
      <<JsonFile(package_json, JsonObject(Other, Table({"react"}), Absent))>> }
    \cup UNION { { <<JsonFile(package_json, JsonObject(Table(K \ dev), Table(dev), Absent))>> :
                      dev \in SUBSET K } : K \in UpTo(DepKeys, MaxDeps) }
    \cup { <<JsonFile(package_json, JsonObject(Table(K), Table(K), Absent))>> :
              K \in UpTo(DepKeys, MaxDeps) }

RECURSIVE Spaces(_)
Spaces(n) == IF n = 0 THEN "" ELSE " " \o Spaces(n - 1)

\* src/: nothing, a React component, a plain module, a fingerprint past the sampled
\* prefix, an unreadable component, a JSON file whose name matches *.js*
SrcChoices ==
    { <<>>,
      <<AppJs>>,
      <<JsFile(<<"src", "util.js">>, "export const x = 1;", <<>>, <<>>)>>,
      <<JsFile(<<"src", "late.js">>, Spaces(SampleLen) \o "import React from 'react';",
               <<"react">>, <<>>)>>,
      <<Unreadable(AppJs), JsFile(<<"src", "util.js">>, "export const x = 1;", <<>>, <<>>)>>,
      <<File(<<"src", "lib", "data.json">>, "{\"title\": \"REACT demo\"}")>> }

RequirementsChoices ==
    { <<>>,
      <<File(requirements_txt, "fastapi==0.95.0\nDjango>=4.0\n")>>,
      <<File(requirements_txt, "Flask==2.0\n")>>,
      <<File(requirements_txt, "requests\n")>>,
      <<Unreadable(File(requirements_txt, "Flask==2.0\n"))>> }

BuildFileChoices ==
    { Restrict(<<File(<<"go.mod">>, "module m"), File(<<"pom.xml">>, "<project/>"),
                 File(<<"build.gradle">>, "")>>, S) :
        S \in SUBSET {File(<<"go.mod">>, "module m"), File(<<"pom.xml">>, "<project/>"),
                      File(<<"build.gradle">>, "")} }

FrameworkTrees ==
    { <<GitHead>> \o p \o r \o b \o s :
        p \in PackageChoices, r \in RequirementsChoices, b \in BuildFileChoices,
        s \in SrcChoices }

InitFramework == \E ws \in FrameworkTrees : Cloned("detect", DefaultTemp, ws)

SpecFramework == InitFramework /\ [][DetectFramework]_vars

\* ---- find_entry_points ----

\* at most this many catalog files in a tree, root and src/ together
MaxEntryFiles == 2

\* package.json as find_entry_points reads it
ScriptChoices ==
    { <<>>,
      <<JsonFile(package_json, NoJson)>>,
      <<JsonFile(package_json, JsonScalar)>>,
      <<JsonFile(package_json, JsonObject(Absent, Absent, Absent))>>,
      <<JsonFile(package_json, JsonObject(Absent, Absent, Other))>>,
      <<JsonFile(package_json, JsonObject(Absent, Absent, Mapping("start" :> "node index.js")))>>,
      <<JsonFile(package_json, JsonObject(Absent, Absent,
                                          Mapping("test" :> "jest" @@ "dev" :> "vite")))>>,
      <<JsonFile(package_json, JsonObject(Absent, Absent,
                                          Mapping("dev" :> "vite" @@ "start" :> "node index.js")))>> }

CatalogNames == {common_entries[i] : i \in 1..Len(common_entries)}

RECURSIVE FilesIn(_, _, _)
FilesIn(dir, catalog, S) ==
    IF catalog = <<>> THEN <<>>
    ELSE (IF <<dir, Head(catalog)>> \in S
          THEN <<File(dir \o <<Head(catalog)>>, "")>> ELSE <<>>) \o FilesIn(dir, Tail(catalog), S)

EntryTrees ==
    { <<GitHead>> \o FilesIn(<<>>, common_entries, S) \o p \o FilesIn(src_dir, common_entries, S) :
        S \in UpTo({<<<<>>, n>> : n \in CatalogNames} \cup {<<src_dir, n>> : n \in CatalogNames},
                   MaxEntryFiles),
        p \in ScriptChoices }

InitEntryPoints == \E ws \in EntryTrees : Cloned("entry", DefaultTemp, ws)

SpecEntryPoints == InitEntryPoints /\ [][FindEntryPoints]_vars

\* ---- analyze_file_structure ----

\* at most this many files in a tree
MaxFiles == 3

WalkPool ==
    << GitHead,
       File(<<"README.md">>, "# demo"),
       File(<<"Makefile">>, "all:"),
       MainPy,
       PyFile(<<"pkg", "empty.py">>, "x = 1\n", <<OtherNode>>),
       File(<<"pkg", "broken.py">>, "import (\n"),
       Unreadable(MainPy),
       File(<<"main.go">>, "package main\nimport \"fmt\"\n"),
       AppJs,
       JsFile(<<"src", "util.ts">>, "export const x = 1;", <<>>, <<>>),
       JsFile(<<"node_modules", "react", "index.js">>, "module.exports = require('./cjs');",
              <<>>, <<"./cjs">>),
       PyFile(<<"venv", "lib", "site.py">>, "import sys\n", <<ImportNode(<<"sys">>)>>),
       PyFile(<<"pkg", "__pycache__", "mod.py">>, "import os\n", <<ImportNode(<<"os">>)>>),
       JsFile(<<"dist", "bundle.js">>, "require('a')", <<>>, <<"a">>),
       JsFile(<<"web", "build", "out.js">>, "require('b')", <<>>, <<"b">>),
       JsFile(<<".eslintrc.js">>, "module.exports = require('./base');", <<>>, <<"./base">>),
       JsFile(<<"src", ".cache", "gen.ts">>, "import a from 'a';", <<"a">>, <<>>) >>

\* a tree has no two files at one path
DistinctPaths(ws) == \A i, j \in 1..Len(ws) : ws[i].path = ws[j].path => i = j

WalkTrees ==
    { ws \in { Restrict(WalkPool, S) :
                 S \in UpTo({WalkPool[i] : i \in 1..Len(WalkPool)}, MaxFiles) } :
        DistinctPaths(ws) }

InitFileStructure ==
    \E ws \in WalkTrees : \E dir \in TempDirs : Cloned("walk", dir, ws)

SpecFileStructure == InitFileStructure /\ [][AnalyzeFileStructure]_vars

(***************************************************************************)
(* Properties of analyze_repository                                        *)
(***************************************************************************)

\* the run has ended: the caller has its response
RunEnded == pc = "done"

\* the fetch succeeded: a working tree exists below temp_dir
FetchSucceeded == clone_calls >= 1 /\ repo # <<>>

\* C1: every run that created a temporary directory has deleted it by the time the
\* run ends, whichever way the run ends.
C1_WorkspaceDeletedAtEnd ==
    RunEnded /\ temp_dir # <<>> => temp_dir \notin disk

\* C2: when Repo.clone_from fails, the run ends with HTTP 400 after exactly one fetch
\* attempt; no later pass runs, the text-generation collaborator is not called and no
\* profile reaches the persistence collaborator.
C2_FetchFailureAborts ==
    clone_calls >= 1 /\ ~FetchSucceeded =>
        /\ clone_calls = 1
        /\ passes = <<>>
        /\ llm_sent = <<>>
        /\ analysis = <<>>
        /\ db = <<>>
        /\ pc \in {"finally", "done"}
        /\ RunEnded => response.status = 400

\* C2 witness: a run whose clone failed has ended
C2_Witness ==
    RunEnded /\ clone_calls = 1 /\ ~FetchSucceeded /\ response.status = 400

\* C3: once the fetch has succeeded the run returns a profile; no later failure
\* (unreadable file, malformed manifest, insight failure, insert failure) reaches
\* the caller.
C3_ProfileOnceFetched ==
    RunEnded /\ FetchSucceeded => response.status = 200 /\ response.body # <<>>

(***************************************************************************)
(* Properties of analyze_file_structure                                    *)
(***************************************************************************)

\* analyze_file_structure has returned
WalkDone == passes # <<>> /\ passes[Len(passes)] = "analyze_file_structure" /\ exc = "none"

\* C4: every key of the dependency map is the path of a FileEntry, the value under a
\* key is that FileEntry's import list, and a FileEntry's path is a key iff its
\* import list is non-empty.
C4_DependenciesMirrorFiles ==
    WalkDone =>
        /\ \A k \in 1..Len(dependencies) :
              \E i \in 1..Len(file_structure) :
                 /\ file_structure[i].path = dependencies[k].key
                 /\ file_structure[i].imports = dependencies[k].value
        /\ \A i \in 1..Len(file_structure) :
              dict_has(dependencies, file_structure[i].path) <=> file_structure[i].imports # <<>>
        /\ \A k, l \in 1..Len(dependencies) : dependencies[k].key = dependencies[l].key => k = l

\* C4 witness: a walk that listed a file with imports and a file without
C4_Witness ==
    /\ WalkDone
    /\ \E i, j \in 1..Len(file_structure) :
          file_structure[i].imports # <<>> /\ file_structure[j].imports = <<>>
    /\ dependencies # <<>>

\* the directory names the walk must leave out
IgnorableDirs == {"node_modules", "venv", "__pycache__", "dist", "build"}

\* a path inside the workspace with a dot-prefixed or ignorable segment
Excluded(path) ==
    \E i \in 1..Len(path) : CharAt(path[i], 1) = "." \/ path[i] \in IgnorableDirs

\* C5: no FileEntry and no dependency-map key is produced for a file whose path inside
\* the workspace has a dot-prefixed segment or a segment named node_modules, venv,
\* __pycache__, dist or build.
C5_ExcludedNeverListed ==
    WalkDone =>
        \A n \in 1..Len(repo) :
            Excluded(repo[n].path) =>
                /\ \A i \in 1..Len(file_structure) :
                      file_structure[i].path # join("/", repo[n].path)
                /\ ~dict_has(dependencies, join("/", repo[n].path))

\* C5 witness: a walk over a tree holding a code file with imports inside an ignorable
\* directory, next to a file that is listed
C5_Witness ==
    /\ WalkDone
    /\ file_structure # <<>>
    /\ \E n \in 1..Len(repo) :
          /\ \E i \in 1..Len(repo[n].path) : repo[n].path[i] \in IgnorableDirs
          /\ suffix(name(repo[n].path)) \in code_extensions
          /\ imports_of(repo[n]) # <<>>

(***************************************************************************)
(* Properties of detect_framework                                          *)
(***************************************************************************)

\* detect_framework has returned
DetectDone == passes # <<>> /\ passes[Len(passes)] = "detect_framework" /\ exc = "none"

\* C6 as stated: whenever any manifest (package.json, requirements.txt, go.mod,
\* pom.xml, build.gradle) yields a framework, the sampler has not run over src/ and
\* the label has no sampler-derived entry.
C6_SamplerOnlyWithoutManifest ==
    DetectDone /\ blocks.package \o blocks.later # <<>> => blocks.sampled = <<>>

\* C6 amended: the sampler is invoked only if package.json yielded no framework; when
\* package.json yields one, the label is the package.json entries followed by those of
\* the other manifests, with no sampler-derived entry.
C6_SamplerOnlyWithoutPackageJson ==
    DetectDone =>
        /\ blocks.invoked <=> blocks.package = <<>>
        /\ blocks.package # <<>> =>
              blocks.sampled = <<>> /\ framework = join(", ", blocks.package \o blocks.later)

\* C6 witness: package.json yields a framework in a tree whose src/ holds a file the
\* sampler would have matched
C6_Witness ==
    /\ DetectDone
    /\ blocks.package # <<>>
    /\ sampler_frameworks(repo) = <<"React">>

\* the keys package.json declares, when it loads as an object whose dependency tables
\* are mappings (or absent)
Declares(key) ==
    /\ can_read(repo, package_json)
    /\ LET data == file_at(repo, package_json).json
       IN  /\ data.loads /\ data.isdict
           /\ data.dependencies.kind # "other" /\ data.devDependencies.kind # "other"
           /\ key \in (DOMAIN data.dependencies.map) \cup (DOMAIN data.devDependencies.map)

\* C7: when the merged dependencies contain 'next' the label contains 'Next.js' and
\* never 'React'; when 'next' is absent and 'react' or 'react-dom' is present the label
\* contains 'React' exactly once.
C7_NextBeforeReact ==
    DetectDone =>
        /\ Declares("next") => contains(framework, "Next.js") /\ ~contains(framework, "React")
        /\ ~Declares("next") /\ (Declares("react") \/ Declares("react-dom")) =>
              count(framework, "React") = 1 /\ ~contains(framework, "Next.js")

\* C7 witness: both the meta-framework and the base framework are declared, in a tree
\* whose src/ also carries the React fingerprint
C7_Witness ==
    /\ DetectDone
    /\ Declares("next") /\ Declares("react")
    /\ sampler_frameworks(repo) = <<"React">>
    /\ framework = "Next.js"

(***************************************************************************)
(* Properties of find_entry_points                                         *)
(***************************************************************************)

\* find_entry_points has returned
EntryDone == passes # <<>> /\ passes[Len(passes)] = "find_entry_points" /\ exc = "none"

\* the scripts table of package.json, empty when there is none to read
DeclaredScripts ==
    IF can_read(repo, package_json)
       /\ file_at(repo, package_json).json.loads
       /\ file_at(repo, package_json).json.isdict
       /\ file_at(repo, package_json).json.scripts.kind = "dict"
    THEN file_at(repo, package_json).json.scripts.map
    ELSE <<>>

\* the catalog names present in directory dir, in catalog order
Present(dir) == Restrict(common_entries, {n \in CatalogNames : exists(repo, dir \o <<n>>)})

\* the order the entries must come in: root catalog, 'start' then 'dev', nested catalog
\* without the names reported at the root
ExpectedEntries ==
    LET root == Present(<<>>)
        scripts == (IF "start" \in DOMAIN DeclaredScripts
                    THEN <<"npm start: " \o DeclaredScripts["start"]>> ELSE <<>>)
                   \o (IF "dev" \in DOMAIN DeclaredScripts
                       THEN <<"npm run dev: " \o DeclaredScripts["dev"]>> ELSE <<>>)
        nested == Restrict(Present(src_dir), CatalogNames \ {root[i] : i \in 1..Len(root)})
    IN  root \o scripts \o [i \in 1..Len(nested) |-> "src/" \o nested[i]]

\* C8: the entries come in the fixed order root catalog, run scripts ('start' before
\* 'dev'), nested catalog prefixed with 'src/' and without the names reported at the
\* root; no string occurs twice.
C8_EntryOrder ==
    EntryDone =>
        /\ entry_points = ExpectedEntries
        /\ \A i, j \in 1..Len(entry_points) : entry_points[i] = entry_points[j] => i = j

\* C8 witness: a catalog name exists both at the root and under src/, and the manifest
\* declares both run scripts
C8_Witness ==
    /\ EntryDone
    /\ \E n \in CatalogNames : exists(repo, <<n>>) /\ exists(repo, <<"src", n>>)
    /\ {"start", "dev"} \subseteq DOMAIN DeclaredScripts
    /\ Len(entry_points) = 3

(***************************************************************************)
(* Properties of get_ai_insights and of the returned profile               *)
(***************************************************************************)

\* get_ai_insights has been called
InsightsCalled == \E i \in 1..Len(passes) : passes[i] = "get_ai_insights"

Placeholder == "AI insights unavailable: "

\* C9: get_ai_insights always returns a string and never fails the run; without a
\* credential it returns the placeholder and the collaborator is not contacted; when
\* the collaborator call raises it returns a placeholder; the collaborator is called
\* at most once.
C9_InsightsNeverAbort ==
    /\ pc = "insights" => exc = "none"
    /\ InsightsCalled =>
          /\ ai_insights \in STRING /\ ai_insights # None
          /\ pc = "insert" => exc = "none"
          /\ Len(llm_sent) <= 1
          /\ (api_key = None \/ api_key = "") =>
                llm_sent = <<>> /\ ai_insights = Placeholder \o "API key not configured"
          /\ (\E i \in 1..Len(llm_sent) : llm_sent[i].raised) =>
                startswith(ai_insights, Placeholder)
    /\ ~InsightsCalled => llm_sent = <<>>

\* C9 witness: the run went on past a collaborator call that raised
C9_Witness ==
    /\ InsightsCalled /\ pc = "insert"
    /\ Len(llm_sent) = 1 /\ llm_sent[1].raised
    /\ startswith(ai_insights, Placeholder)

\* the last '/'-separated segment of url, trailing slashes and one trailing '.git' removed
LastSegment(url) ==
    LET seg == split_last(rstrip(url, "/"), "/")
    IN  IF endswith(seg, ".git") THEN SubSeq(seg, 1, Len(seg) - 4) ELSE seg

\* C10: the returned profile echoes the request URL and names the repository by the
\* last segment of the URL without trailing slashes and the '.git' suffix, the
\* characters inside the segment untouched.
C10_RepoNameIsLastSegment ==
    RunEnded /\ response.status = 200 =>
        /\ response.body[1].github_url = request
        /\ response.body[1].repo_name = LastSegment(request)

(***************************************************************************)
(* Completeness of analyze_file_structure                                  *)
(***************************************************************************)

\* the FileEntry positions whose path is the workspace-relative path of file n
EntriesOf(n) ==
    {i \in 1..Len(file_structure) : file_structure[i].path = join("/", repo[n].path)}

\* C11: wherever the workspace root lies, every regular file whose path inside the
\* workspace has no dot-prefixed and no ignorable segment gets exactly one FileEntry,
\* whose path is the workspace-relative path: unique among the entries, never absolute.
C11_OneEntryPerEligibleFile ==
    WalkDone =>
        /\ \A n \in 1..Len(repo) :
              ~Excluded(repo[n].path) => Cardinality(EntriesOf(n)) = 1
        /\ \A i, j \in 1..Len(file_structure) :
              file_structure[i].path = file_structure[j].path => i = j
        /\ \A i \in 1..Len(file_structure) : ~startswith(file_structure[i].path, "/")

=============================================================================
